---- MODULE Spec2Model ----
(***************************************************************************)
(* Model of pg-embed: the acquisition-status cache of pg_access.rs and the *)
(* server lifecycle of postgres.rs.                                        *)
(*                                                                         *)
(* Two groups of processes share the file system:                          *)
(*   - Instances: tasks that use the public PgAccess API of one PgAccess   *)
(*     value each (acquisition_needed, mark_acquisition_in_progress,       *)
(*     mark_acquisition_finished);                                         *)
(*   - one PgEmbed controller driven through setup, init_db, start_db,    *)
(*     stop_db and drop, with the child process it spawns and a clock.     *)
(* SpecAcq runs the instances (FairAcq: under fair scheduling), Spec the   *)
(* controller.                                                             *)
(***************************************************************************)
EXTENDS Integers, Sequences, FiniteSets, TLC

\* ------------------------------------------------------------------ bounds
NumInstances == 2
NumCacheDirs == 2

Instances == 1..NumInstances
CacheDirs == 1..NumCacheDirs
NoHolder == 0

VARIABLES
  ACQUIRED_PG_BINS,   \* the shared HashMap<PathBuf, PgAcquisitionStatus>
  mutex,              \* holder of the tokio Mutex around the map, or NoHolder
  init_db_exe,        \* file system: does <cache_dir>/bin/initdb exist
  cache_dir,          \* PgAccess.cache_dir of each instance
  apc,                \* position of each instance's task
  ret,                \* value returned by the instance's acquisition_needed
  waited,             \* history: the instance's call entered the polling loop
  \* ---- one PgEmbed controller (postgres.rs) and its files
  server_status,      \* PgEmbed.server_status
  status_at_entry,    \* history: the status the last command found on entry
  persistent,         \* PgSettings.persistent
  lpc,                \* position of the controller's task
  call,               \* the public call in progress, or the last one made
  result,             \* what the last public call returned ("none": not returned)
  proc,               \* PgProcessType of the command of the call
  child,              \* the spawned external process, as the parent can see it
  elapsed,            \* time since the command was spawned (saturating)
  timer,              \* time since tokio::time::timeout was entered
  zip_file,           \* file system: the archive file exists
  database_dir,       \* file system: the data directory exists
  pw_file,            \* file system: the credentials file exists
  trace,              \* history: what the current call has done so far
  pg_settings,        \* PgEmbed.pg_settings: user, password, port
  db_uri,             \* PgEmbed.db_uri
  \* ---- PgAccess::new, its inputs and the directories of the file system
  fetch_settings,     \* PgFetchSettings: operating_system, architecture, version
  db_dir_arg,         \* the database_dir argument
  cache_dir_arg,      \* the cache_dir argument: << >> is None, <<p>> is Some(p)
  user_cache_dir,     \* dirs::cache_dir(), an Option in the same way
  fs_dirs,            \* file system: the directories that exist
  fs_refused,         \* file system: the paths at which no directory can be made
  pg_access,          \* what each call of PgAccess::new returned, in order
  purged              \* what the last call of PgAccess::purge did and returned

acqVars == <<ACQUIRED_PG_BINS, mutex, cache_dir, apc, ret, waited>>
uriVars == <<pg_settings, db_uri>>
pathVars == <<fetch_settings, db_dir_arg, cache_dir_arg, user_cache_dir, fs_dirs,
              fs_refused, pg_access, purged>>
lifeVars == <<server_status, status_at_entry, persistent, lpc, call, result, proc, child, elapsed,
              timer, zip_file, database_dir, pw_file, trace, uriVars, pathVars>>
vars == <<acqVars, init_db_exe, lifeVars>>

\* PgAcquisitionStatus
PgAcquisitionStatus == {"Undefined", "InProgress", "Finished"}

\* lock.get(&self.cache_dir) mapped through the match of acquisition_status
StatusOf(map, d) == IF d \in DOMAIN map THEN map[d] ELSE "Undefined"

\* the map replaced by one that holds the new entry only
Insert_only(map, d, v) == [k \in {d} |-> v]

\* lock.insert(key, value)
Insert(map, d, v) == [k \in (DOMAIN map) \cup {d} |-> IF k = d THEN v ELSE map[k]]

\* the result of the probe negated
pg_executables_cached_negated(i) == ~init_db_exe[cache_dir[i]]

\* Self::path_exists(self.init_db_exe): an attempted open of the file
pg_executables_cached(i) == init_db_exe[cache_dir[i]]

\* Positions at which a task awaits ACQUIRED_PG_BINS.lock(), and the position
\* it is at once it holds the guard.
LockTarget ==
  [an_lock |-> "an_match", an_poll_lock |-> "an_poll",
   mip_lock |-> "mip", maf_lock |-> "maf"]

\* ACQUIRED_PG_BINS.lock().await
lock_acquire(i) ==
  /\ apc[i] \in DOMAIN LockTarget
  /\ mutex = NoHolder
  /\ mutex' = i
  /\ apc' = [apc EXCEPT ![i] = LockTarget[apc[i]]]
  /\ UNCHANGED <<ACQUIRED_PG_BINS, init_db_exe, cache_dir, ret, waited, lifeVars>>

\* acquisition_needed, entry: the probe of the initdb executable
acquisition_needed_call(i) ==
  /\ apc[i] = "idle"
  /\ IF pg_executables_cached(i)
       THEN /\ apc' = [apc EXCEPT ![i] = "returned"]
            /\ ret' = [ret EXCEPT ![i] = "false"]
       ELSE /\ apc' = [apc EXCEPT ![i] = "an_lock"]
            /\ UNCHANGED ret
  /\ UNCHANGED <<ACQUIRED_PG_BINS, mutex, init_db_exe, cache_dir, waited, lifeVars>>

\* acquisition_needed: match self.acquisition_status().await { ... }
acquisition_needed_match(i) ==
  /\ apc[i] = "an_match"
  /\ mutex = i
  /\ mutex' = NoHolder
  /\ LET s == StatusOf(ACQUIRED_PG_BINS, cache_dir[i]) IN
       CASE s = "InProgress" ->
              /\ apc' = [apc EXCEPT ![i] = "an_poll_lock"]
              /\ waited' = [waited EXCEPT ![i] = TRUE]
              /\ UNCHANGED ret
         [] s = "Finished" ->
              /\ apc' = [apc EXCEPT ![i] = "returned"]
              /\ ret' = [ret EXCEPT ![i] = "false"]
              /\ UNCHANGED waited
         [] s = "Undefined" ->
              /\ apc' = [apc EXCEPT ![i] = "returned"]
              /\ ret' = [ret EXCEPT ![i] = "true"]
              /\ UNCHANGED waited
  /\ UNCHANGED <<ACQUIRED_PG_BINS, init_db_exe, cache_dir, lifeVars>>

\* the loop condition inverted: while status != InProgress
StillInProgress_inverted(s) == s # "InProgress"

\* the condition of the polling loop: does the waiter stay in the loop
StillInProgress(s) == s = "InProgress"

\* the guard of the status read kept across interval.tick()
acquisition_needed_poll_keeps_guard(i) ==
  /\ apc[i] = "an_poll"
  /\ mutex = i
  /\ IF StillInProgress(StatusOf(ACQUIRED_PG_BINS, cache_dir[i]))
       THEN /\ apc' = [apc EXCEPT ![i] = "an_tick"]
            /\ UNCHANGED <<ret, mutex>>
       ELSE /\ apc' = [apc EXCEPT ![i] = "returned"]
            /\ ret' = [ret EXCEPT ![i] = "false"]
            /\ mutex' = NoHolder
  /\ UNCHANGED <<ACQUIRED_PG_BINS, init_db_exe, cache_dir, waited, lifeVars>>

\* acquisition_needed: while self.acquisition_status().await == InProgress
acquisition_needed_poll(i) ==
  /\ apc[i] = "an_poll"
  /\ mutex = i
  /\ mutex' = NoHolder
  /\ IF StillInProgress(StatusOf(ACQUIRED_PG_BINS, cache_dir[i]))
       THEN /\ apc' = [apc EXCEPT ![i] = "an_tick"]
            /\ UNCHANGED ret
       ELSE /\ apc' = [apc EXCEPT ![i] = "returned"]
            /\ ret' = [ret EXCEPT ![i] = "false"]
  /\ UNCHANGED <<ACQUIRED_PG_BINS, init_db_exe, cache_dir, waited, lifeVars>>

\* acquisition_needed: interval.tick().await
acquisition_needed_tick(i) ==
  /\ apc[i] = "an_tick"
  /\ apc' = [apc EXCEPT ![i] = "an_poll_lock"]
  /\ UNCHANGED <<ACQUIRED_PG_BINS, mutex, init_db_exe, cache_dir, ret, waited, lifeVars>>

\* The instance told that acquisition is needed goes on to acquire.
acquirer_begin(i) ==
  /\ apc[i] = "returned"
  /\ ret[i] = "true"
  /\ apc' = [apc EXCEPT ![i] = "mip_lock"]
  /\ UNCHANGED <<ACQUIRED_PG_BINS, mutex, init_db_exe, cache_dir, ret, waited, lifeVars>>

\* mark_acquisition_in_progress: lock.insert(cache_dir, InProgress)
mark_acquisition_in_progress(i) ==
  /\ apc[i] = "mip"
  /\ mutex = i
  /\ mutex' = NoHolder
  /\ ACQUIRED_PG_BINS' = Insert(ACQUIRED_PG_BINS, cache_dir[i], "InProgress")
  /\ apc' = [apc EXCEPT ![i] = "acquiring"]
  /\ UNCHANGED <<init_db_exe, cache_dir, ret, waited, lifeVars>>

\* The download and unpack succeed: bin/initdb now exists in the cache dir.
acquirer_unpacked(i) ==
  /\ apc[i] = "acquiring"
  /\ init_db_exe' = [init_db_exe EXCEPT ![cache_dir[i]] = TRUE]
  /\ apc' = [apc EXCEPT ![i] = "maf_lock"]
  /\ UNCHANGED <<ACQUIRED_PG_BINS, mutex, cache_dir, ret, waited, lifeVars>>

\* The download or unpack fails, or the task dies: no mark_acquisition_finished.
acquirer_abandons(i) ==
  /\ apc[i] = "acquiring"
  /\ apc' = [apc EXCEPT ![i] = "abandoned"]
  /\ UNCHANGED <<ACQUIRED_PG_BINS, mutex, init_db_exe, cache_dir, ret, waited, lifeVars>>

\* the wrong status inserted: the entry stays InProgress
mark_acquisition_finished_wrong_status(i) ==
  /\ apc[i] = "maf"
  /\ mutex = i
  /\ mutex' = NoHolder
  /\ ACQUIRED_PG_BINS' = Insert(ACQUIRED_PG_BINS, cache_dir[i], "InProgress")
  /\ apc' = [apc EXCEPT ![i] = "done"]
  /\ UNCHANGED <<init_db_exe, cache_dir, ret, waited, lifeVars>>

\* mark_acquisition_finished: lock.insert(cache_dir, Finished)
mark_acquisition_finished(i) ==
  /\ apc[i] = "maf"
  /\ mutex = i
  /\ mutex' = NoHolder
  /\ ACQUIRED_PG_BINS' = Insert(ACQUIRED_PG_BINS, cache_dir[i], "Finished")
  /\ apc' = [apc EXCEPT ![i] = "done"]
  /\ UNCHANGED <<init_db_exe, cache_dir, ret, waited, lifeVars>>

\* lazy_static! ACQUIRED_PG_BINS: an empty map; no task has started
AcqIdle ==
  /\ ACQUIRED_PG_BINS = << >>
  /\ mutex = NoHolder
  /\ apc = [i \in Instances |-> "idle"]
  /\ ret = [i \in Instances |-> "none"]
  /\ waited = [i \in Instances |-> FALSE]

\* the steps of an instance that its own code takes when scheduled
AcqStep(i) ==
  \/ acquisition_needed_call(i)
  \/ acquisition_needed_match(i)
  \/ acquisition_needed_poll(i)
  \/ acquisition_needed_tick(i)
  \/ acquirer_begin(i)
  \/ mark_acquisition_in_progress(i)
  \/ acquirer_unpacked(i)
  \/ mark_acquisition_finished(i)

NextAcq ==
  \E i \in Instances : lock_acquire(i) \/ AcqStep(i) \/ acquirer_abandons(i)

\* ---------------------------------------------------------------- lifecycle
\* pg_settings.timeout, in ticks of the model's clock
TimeoutTicks == 2

\* PgServerStatus
PgServerStatus ==
  {"Uninitialized", "Initializing", "Initialized", "Starting", "Started",
   "Stopping", "Stopped", "Failure"}

\* PgProcessType
PgProcessType == {"InitDb", "StartDb", "StopDb"}

\* start_db and stop_db assigning each other's transient status
Transient_swapped ==
  [InitDb |-> "Initializing", StartDb |-> "Stopping", StopDb |-> "Starting"]

\* the status each of init_db / start_db / stop_db sets on entry
Transient == [InitDb |-> "Initializing", StartDb |-> "Starting", StopDb |-> "Stopping"]

\* timeout_pg_process: the status set for a successful exit, by process type
Final == [InitDb |-> "Initialized", StartDb |-> "Started", StopDb |-> "Stopped"]

\* the map_err of each spawn
SpawnError ==
  [InitDb |-> "PgInitFailure:spawn", StartDb |-> "PgStartFailure:spawn",
   StopDb |-> "PgStopFailure:spawn"]

\* the cache directory PgAccess::new resolves for the controller
ControllerCacheDir == CHOOSE d \in CacheDirs : \A e \in CacheDirs : d <= e

\* state, code: what process.wait() can report; out, err: is the pipe still
\* open; blocked: the pipe whose buffer is full and on which the child's write
\* waits for the parent to read; at: the time since the spawn at which the
\* child exited
NoChild ==
  [state |-> "none", code |-> "none", out |-> FALSE, err |-> FALSE, blocked |-> "none",
   at |-> 0]

Append1(t, e) == t \o <<e>>

\* a public call returns r to its caller
Return(r) ==
  /\ lpc' = "idle"
  /\ result' = r

\* a public call starts: nothing returned yet, no child of this call
Enter(c) ==
  /\ lpc = "idle"
  /\ call' = c
  /\ result' = "none"
  /\ child' = NoChild
  /\ elapsed' = 0
  /\ timer' = 0

\* first statement of init_db / start_db / stop_db: the transient status
begin_command(pt, t) ==
  /\ server_status' = Transient[pt]
  /\ status_at_entry' = server_status
  /\ proc' = pt
  /\ trace' = Append1(t, "status:" \o Transient[pt])
  /\ lpc' = "spawn"

\* PgEmbed::setup, entry: aquire_postgres is called unconditionally
setup ==
  /\ Enter("setup")
  /\ lpc' = "fetch"
  /\ trace' = << >>
  /\ proc' = "none"
  /\ UNCHANGED <<acqVars, uriVars, pathVars, status_at_entry, server_status, persistent, zip_file, database_dir, pw_file, init_db_exe>>

\* aquire_postgres: pg_fetch::fetch_postgres(...).await?
fetch_postgres ==
  /\ lpc = "fetch"
  /\ \/ /\ trace' = Append1(trace, "fetch")
        /\ lpc' = "write_zip"
        /\ UNCHANGED result
     \/ /\ trace' = Append1(trace, "fetch:err")
        /\ Return("FetchError")
  /\ UNCHANGED <<acqVars, uriVars, pathVars, status_at_entry, server_status, persistent, call, proc, child, elapsed, timer,
                 zip_file, database_dir, pw_file, init_db_exe>>

\* aquire_postgres: self.pg_access.write_pg_zip(&pg_bin_data).await?
write_pg_zip ==
  /\ lpc = "write_zip"
  /\ \/ /\ zip_file' = TRUE              \* File::create and write_all succeed
        /\ trace' = Append1(trace, "write_pg_zip")
        /\ lpc' = "unpack"
        /\ UNCHANGED result
     \/ /\ UNCHANGED zip_file            \* File::create fails
        /\ trace' = Append1(trace, "write_pg_zip:err")
        /\ Return("WriteFileError")
     \/ /\ zip_file' = TRUE              \* created, write_all fails
        /\ trace' = Append1(trace, "write_pg_zip:err")
        /\ Return("WriteFileError")
  /\ UNCHANGED <<acqVars, uriVars, pathVars, status_at_entry, server_status, persistent, call, proc, child, elapsed, timer,
                 database_dir, pw_file, init_db_exe>>

\* the error of unpack_postgres dropped: setup goes on to the credentials file
AfterUnpackError_ignored == lpc' = "pwfile" /\ UNCHANGED result

\* what setup does once unpack_postgres has failed: the ? returns the error
AfterUnpackError == Return("UnpackError")

\* aquire_postgres: pg_fetch::unpack_postgres(zip, cache_dir).await, then the ? of setup
unpack_postgres ==
  /\ lpc = "unpack"
  /\ \/ /\ init_db_exe' = [init_db_exe EXCEPT ![ControllerCacheDir] = TRUE]
        /\ trace' = Append1(trace, "unpack")
        /\ lpc' = "pwfile"
        /\ UNCHANGED result
     \/ /\ UNCHANGED init_db_exe
        /\ trace' = Append1(trace, "unpack:err")
        /\ AfterUnpackError
  /\ UNCHANGED <<acqVars, uriVars, pathVars, status_at_entry, server_status, persistent, call, proc, child, elapsed, timer,
                 zip_file, database_dir, pw_file>>

\* setup: self.pg_access.create_password_file(...).await?  then  init_db, entry
create_password_file ==
  /\ lpc = "pwfile"
  /\ \/ /\ pw_file' = TRUE               \* File::create and write succeed
        /\ begin_command("InitDb", Append1(trace, "create_password_file"))
        /\ UNCHANGED result
     \/ /\ UNCHANGED pw_file             \* File::create fails
        /\ trace' = Append1(trace, "create_password_file:err")
        /\ Return("WriteFileError")
        /\ UNCHANGED <<server_status, status_at_entry, proc>>
     \/ /\ pw_file' = TRUE               \* created, write fails
        /\ trace' = Append1(trace, "create_password_file:err")
        /\ Return("WriteFileError")
        /\ UNCHANGED <<server_status, status_at_entry, proc>>
  /\ UNCHANGED <<acqVars, uriVars, pathVars, persistent, call, child, elapsed, timer, zip_file, database_dir,
                 init_db_exe>>

\* PgEmbed::init_db, entry
init_db ==
  /\ Enter("init_db")
  /\ begin_command("InitDb", << >>)
  /\ UNCHANGED <<acqVars, uriVars, pathVars, persistent, zip_file, database_dir, pw_file, init_db_exe>>

\* PgEmbed::start_db, entry
start_db ==
  /\ Enter("start_db")
  /\ begin_command("StartDb", << >>)
  /\ UNCHANGED <<acqVars, uriVars, pathVars, persistent, zip_file, database_dir, pw_file, init_db_exe>>

\* PgEmbed::stop_db, entry
stop_db ==
  /\ Enter("stop_db")
  /\ begin_command("StopDb", << >>)
  /\ UNCHANGED <<acqVars, uriVars, pathVars, persistent, zip_file, database_dir, pw_file, init_db_exe>>

\* the status a lifecycle call leaves when its spawn fails: the map_err(..)?
\* returns at once, the status is not assigned
StatusAfterSpawnError(st) == st

\* command.stdout(piped).stderr(piped).spawn().map_err(...)?
spawn ==
  /\ lpc = "spawn"
  /\ \/ /\ init_db_exe[ControllerCacheDir]    \* the executables are there
        /\ trace' = Append1(trace, "spawn:" \o proc)
        /\ child' = [state |-> "running", code |-> "none", out |-> TRUE, err |-> TRUE,
                     blocked |-> "none", at |-> 0]
        /\ lpc' = "drain_out"
        /\ UNCHANGED <<result, server_status>>
     \/ /\ trace' = Append1(trace, "spawn:" \o proc \o ":err")
        /\ Return(SpawnError[proc])
        /\ server_status' = StatusAfterSpawnError(server_status)
        /\ UNCHANGED child
  /\ UNCHANGED <<acqVars, uriVars, pathVars, status_at_entry, persistent, call, proc, elapsed, timer, zip_file, database_dir,
                 pw_file, init_db_exe>>

\* ---- the child process and the clock, while a call is waiting on them
InCommand == lpc \in {"drain_out", "drain_err", "wait"}

child_closes_stdout ==
  /\ InCommand
  /\ child.out
  /\ child.blocked = "none"
  /\ child' = [child EXCEPT !.out = FALSE]
  /\ UNCHANGED <<acqVars, uriVars, pathVars, status_at_entry, server_status, persistent, lpc, call, result, proc, elapsed, timer,
                 zip_file, database_dir, pw_file, trace, init_db_exe>>

child_closes_stderr ==
  /\ InCommand
  /\ child.err
  /\ child.blocked = "none"
  /\ child' = [child EXCEPT !.err = FALSE]
  /\ UNCHANGED <<acqVars, uriVars, pathVars, status_at_entry, server_status, persistent, lpc, call, result, proc, elapsed, timer,
                 zip_file, database_dir, pw_file, trace, init_db_exe>>

\* the child exits; its pipes close with it unless a process it started holds them
child_exits ==
  /\ InCommand
  /\ child.state = "running"
  /\ child.blocked = "none"
  /\ \E code \in {"success", "failure"}, held \in BOOLEAN :
       child' = [state |-> "exited", code |-> code,
                 out |-> child.out /\ held, err |-> child.err /\ held,
                 blocked |-> "none", at |-> elapsed]
  /\ UNCHANGED <<acqVars, uriVars, pathVars, status_at_entry, server_status, persistent, lpc, call, result, proc, elapsed, timer,
                 zip_file, database_dir, pw_file, trace, init_db_exe>>

\* are the BufReaders of handle_process_io alive: the read ends of the pipes
\* are open from the spawn until handle_process_io returns
Piped == lpc \in {"drain_out", "drain_err"}

\* the child writes to stdout until the pipe buffer is full: the write blocks
child_fills_stdout ==
  /\ Piped
  /\ child.state = "running"
  /\ child.out
  /\ child.blocked = "none"
  /\ child' = [child EXCEPT !.blocked = "stdout"]
  /\ UNCHANGED <<acqVars, uriVars, pathVars, status_at_entry, server_status, persistent, lpc, call, result, proc, elapsed, timer,
                 zip_file, database_dir, pw_file, trace, init_db_exe>>

\* the child writes to stderr until the pipe buffer is full: the write blocks
child_fills_stderr ==
  /\ Piped
  /\ child.state = "running"
  /\ child.err
  /\ child.blocked = "none"
  /\ child' = [child EXCEPT !.blocked = "stderr"]
  /\ UNCHANGED <<acqVars, uriVars, pathVars, status_at_entry, server_status, persistent, lpc, call, result, proc, elapsed, timer,
                 zip_file, database_dir, pw_file, trace, init_db_exe>>

\* the child can no longer be waited on: process.wait() will return Err
child_lost ==
  /\ InCommand
  /\ child.state = "running"
  /\ child' = [child EXCEPT !.state = "lost"]
  /\ UNCHANGED <<acqVars, uriVars, pathVars, status_at_entry, server_status, persistent, lpc, call, result, proc, elapsed, timer,
                 zip_file, database_dir, pw_file, trace, init_db_exe>>

\* does the clock stand still until the pending timeout has been served
TimerDue(pc, tm) == pc = "wait" /\ tm >= TimeoutTicks

Tick ==
  /\ InCommand
  /\ ~TimerDue(lpc, timer)
  /\ elapsed <= TimeoutTicks \/ lpc = "wait"
  /\ elapsed' = IF elapsed <= TimeoutTicks THEN elapsed + 1 ELSE elapsed
  /\ timer' = IF lpc = "wait" THEN timer + 1 ELSE timer
  /\ UNCHANGED <<acqVars, uriVars, pathVars, status_at_entry, server_status, persistent, lpc, call, result, proc, child,
                 zip_file, database_dir, pw_file, trace, init_db_exe>>

\* ---- handle_process_io: stdout to its end, then stderr to its end
\* has the stream reached end of file (next_line returns None)
AtEof(open) == ~open

\* handle_process_io returns: both readers are dropped, which closes the read
\* ends of the pipes; a write of the child that was blocked fails instead
ReadersDropped(c) == [c EXCEPT !.blocked = "none"]

\* while let Some(line) = reader_out.next_line()...await?  -- Some(line): the
\* pipe is read, a write blocked on it goes on
handle_process_io_stdout_line ==
  /\ lpc = "drain_out"
  /\ child.blocked = "stdout"
  /\ child' = [child EXCEPT !.blocked = "none"]
  /\ UNCHANGED <<acqVars, uriVars, pathVars, status_at_entry, server_status, persistent, lpc, call, result, proc, elapsed, timer,
                 zip_file, database_dir, pw_file, trace, init_db_exe>>

\* while let Some(line) = reader_err.next_line()...await?  -- Some(line)
handle_process_io_stderr_line ==
  /\ lpc = "drain_err"
  /\ child.blocked = "stderr"
  /\ child' = [child EXCEPT !.blocked = "none"]
  /\ UNCHANGED <<acqVars, uriVars, pathVars, status_at_entry, server_status, persistent, lpc, call, result, proc, elapsed, timer,
                 zip_file, database_dir, pw_file, trace, init_db_exe>>

\* while let Some(line) = reader_out.next_line()...await?  -- end of stream
handle_process_io_stdout ==
  /\ lpc = "drain_out"
  /\ AtEof(child.out)
  /\ lpc' = "drain_err"
  /\ trace' = Append1(trace, "stdout:eof")
  /\ UNCHANGED <<acqVars, uriVars, pathVars, status_at_entry, server_status, persistent, call, result, proc, child, elapsed, timer,
                 zip_file, database_dir, pw_file, init_db_exe>>

\* reader_out.next_line() fails: the ? leaves handle_process_io, whose result
\* the caller drops
handle_process_io_stdout_error ==
  /\ lpc = "drain_out"
  /\ lpc' = "wait"
  /\ timer' = 0
  /\ child' = ReadersDropped(child)
  /\ trace' = Append1(trace, "stdout:error")
  /\ UNCHANGED <<acqVars, uriVars, pathVars, status_at_entry, server_status, persistent, call, result, proc, elapsed,
                 zip_file, database_dir, pw_file, init_db_exe>>

\* while let Some(line) = reader_err.next_line()...await?  -- end of stream
handle_process_io_stderr ==
  /\ lpc = "drain_err"
  /\ AtEof(child.err)
  /\ lpc' = "wait"
  /\ timer' = 0
  /\ child' = ReadersDropped(child)
  /\ trace' = Append1(trace, "stderr:eof")
  /\ UNCHANGED <<acqVars, uriVars, pathVars, status_at_entry, server_status, persistent, call, result, proc, elapsed,
                 zip_file, database_dir, pw_file, init_db_exe>>

\* reader_err.next_line() fails
handle_process_io_stderr_error ==
  /\ lpc = "drain_err"
  /\ lpc' = "wait"
  /\ timer' = 0
  /\ child' = ReadersDropped(child)
  /\ trace' = Append1(trace, "stderr:error")
  /\ UNCHANGED <<acqVars, uriVars, pathVars, status_at_entry, server_status, persistent, call, result, proc, elapsed,
                 zip_file, database_dir, pw_file, init_db_exe>>

\* ---- timeout_pg_process
\* Ok(Ok(exit_status)): the status and the result, by process type and exit code
OnExit(pt, code) ==
  IF code = "success"
    THEN [status |-> Final[pt], result |-> "Ok"]
    ELSE [status |-> "Failure", result |-> "PgStartFailure:exit"]

\* timeout(..., process.wait()) resolves with the exit status
timeout_pg_process_exit ==
  /\ lpc = "wait"
  /\ child.state = "exited"
  /\ server_status' = OnExit(proc, child.code).status
  /\ Return(OnExit(proc, child.code).result)
  /\ trace' = Append1(trace, "wait:exit")
  /\ UNCHANGED <<acqVars, uriVars, pathVars, status_at_entry, persistent, call, proc, child, elapsed, timer, zip_file,
                 database_dir, pw_file, init_db_exe>>

\* Ok(Err(err)): process.wait() failed
timeout_pg_process_wait_error ==
  /\ lpc = "wait"
  /\ child.state = "lost"
  /\ server_status' = "Failure"
  /\ Return("PgStartFailure:wait")
  /\ trace' = Append1(trace, "wait:error")
  /\ UNCHANGED <<acqVars, uriVars, pathVars, status_at_entry, persistent, call, proc, child, elapsed, timer, zip_file,
                 database_dir, pw_file, init_db_exe>>

\* the child killed when the timeout has passed
ChildAfterElapsed_killed(c) ==
  [c EXCEPT !.state = "exited", !.code = "failure", !.out = FALSE, !.err = FALSE]

\* the child after the Err(_) arm: the arm assigns the status and builds the
\* error, it sends nothing to the process, and the Child handle is dropped at
\* the return without kill_on_drop
ChildAfterElapsed(c) == c

\* Err(Elapsed): the timeout passed and the child has not exited
timeout_pg_process_elapsed ==
  /\ lpc = "wait"
  /\ child.state = "running"
  /\ timer >= TimeoutTicks
  /\ server_status' = "Failure"
  /\ Return("PgStopFailure:TimedOut")
  /\ trace' = Append1(trace, "wait:elapsed")
  /\ child' = ChildAfterElapsed(child)
  /\ UNCHANGED <<acqVars, uriVars, pathVars, status_at_entry, persistent, call, proc, elapsed, timer, zip_file,
                 database_dir, pw_file, init_db_exe>>

\* ---- impl Drop for PgEmbed
\* let _ = &self.stop_db();  -- stop_db is an async fn: the call builds a
\* future that is dropped without ever being polled, so its body does not run
stop_db_unpolled == << >>

\* PgAccess::clean: remove_dir_all(database_dir)?, then remove_file(pw_file)?
\* dir, pw: do they exist; dirFails, pwFails: does the file system refuse
clean(dir, pw, dirFails, pwFails) ==
  IF ~dir \/ dirFails
    THEN [database_dir |-> dir, pw_file |-> pw, result |-> "PgCleanUpFailure",
          log |-> <<"remove_dir_all:err">>]
    ELSE IF ~pw \/ pwFails
      THEN [database_dir |-> FALSE, pw_file |-> pw, result |-> "PgCleanUpFailure",
            log |-> <<"remove_dir_all:ok", "remove_file:err">>]
      ELSE [database_dir |-> FALSE, pw_file |-> FALSE, result |-> "Ok",
            log |-> <<"remove_dir_all:ok", "remove_file:ok">>]

\* the error of remove_dir_all not returned: the file is removed all the same
clean_up_goes_on(dir, pw, dirFails, pwFails) ==
  LET dirGone == dir /\ ~dirFails
      pwGone == pw /\ ~pwFails
  IN [database_dir |-> dir /\ ~dirGone, pw_file |-> pw /\ ~pwGone,
      result |-> IF pwGone THEN "Ok" ELSE "PgCleanUpFailure",
      log |-> <<IF dirGone THEN "remove_dir_all:ok" ELSE "remove_dir_all:err",
                IF pwGone THEN "remove_file:ok" ELSE "remove_file:err">>]

\* PgAccess::clean_up(database_dir, pw_file): remove_dir_all(..).await
\* .map_err(..)?, then remove_file(..).await.map_err(..)
clean_up(dir, pw, dirFails, pwFails) ==
  IF ~dir \/ dirFails
    THEN [database_dir |-> dir, pw_file |-> pw, result |-> "PgCleanUpFailure",
          log |-> <<"remove_dir_all:err">>]
    ELSE IF ~pw \/ pwFails
      THEN [database_dir |-> FALSE, pw_file |-> pw, result |-> "PgCleanUpFailure",
            log |-> <<"remove_dir_all:ok", "remove_file:err">>]
      ELSE [database_dir |-> FALSE, pw_file |-> FALSE, result |-> "Ok",
            log |-> <<"remove_dir_all:ok", "remove_file:ok">>]

\* the caller cleans up with the paths of the controller, between two calls
clean_up_call ==
  /\ lpc = "idle"
  /\ call' = "clean_up"
  /\ \E dirFails \in BOOLEAN, pwFails \in BOOLEAN :
       LET c == clean_up(database_dir, pw_file, dirFails, pwFails)
       IN /\ database_dir' = c.database_dir
          /\ pw_file' = c.pw_file
          /\ result' = c.result
          /\ trace' = c.log
  /\ UNCHANGED <<acqVars, uriVars, pathVars, status_at_entry, server_status, persistent, lpc,
                 proc, child, elapsed, timer, zip_file, init_db_exe>>

\* the persistence flag read the wrong way round
DropCleans_inverted(p) == p

\* the persistence flag not read at all
DropCleans_always(p) == TRUE

\* is PgAccess::clean called by drop
DropCleans(p) == ~p

drop ==
  /\ lpc = "idle"
  /\ lpc' = "dropped"
  /\ call' = "drop"
  /\ result' = "none"
  /\ \E dirFails \in BOOLEAN, pwFails \in BOOLEAN :
       LET stop == IF server_status # "Stopped" THEN stop_db_unpolled ELSE << >>
           c == IF DropCleans(persistent)
                  THEN clean(database_dir, pw_file, dirFails, pwFails)
                  ELSE [database_dir |-> database_dir, pw_file |-> pw_file, log |-> << >>]
       IN /\ database_dir' = c.database_dir
          /\ pw_file' = c.pw_file
          /\ trace' = stop \o c.log
  /\ UNCHANGED <<acqVars, uriVars, pathVars, status_at_entry, server_status, persistent, proc, child, elapsed, timer, zip_file,
                 init_db_exe>>

\* PgEmbed::new: status Uninitialized; PgAccess::new has created the data directory
LifeIdle ==
  /\ server_status = "Uninitialized"
  /\ status_at_entry = "none"
  /\ lpc = "idle"
  /\ call = "none"
  /\ result = "none"
  /\ proc = "none"
  /\ child = NoChild
  /\ elapsed = 0
  /\ timer = 0
  /\ zip_file = FALSE
  /\ database_dir = TRUE
  /\ pw_file = FALSE
  /\ trace = << >>

NextLife ==
  \/ setup
  \/ fetch_postgres
  \/ write_pg_zip
  \/ unpack_postgres
  \/ create_password_file
  \/ init_db
  \/ start_db
  \/ stop_db
  \/ spawn
  \/ child_closes_stdout
  \/ child_closes_stderr
  \/ child_exits
  \/ child_fills_stdout
  \/ child_fills_stderr
  \/ child_lost
  \/ Tick
  \/ handle_process_io_stdout_line
  \/ handle_process_io_stderr_line
  \/ handle_process_io_stdout
  \/ handle_process_io_stdout_error
  \/ handle_process_io_stderr
  \/ handle_process_io_stderr_error
  \/ timeout_pg_process_exit
  \/ timeout_pg_process_wait_error
  \/ timeout_pg_process_elapsed
  \/ clean_up_call
  \/ drop

\* --------------------------------------------------------- PgEmbed::new
\* the settings a controller is constructed with (port is an i16)
PgSettingsSet ==
  {[user |-> "u", password |-> "p", port |-> 5432],
   [user |-> "postgres", password |-> "password", port |-> 5433]}

\* the password left out of the format string
new_db_uri_no_password(s) ==
  "postgres://" \o s.user \o "@localhost:" \o ToString(s.port)

\* format!("postgres://{}:{}@localhost:{}", user, password, port)
new_db_uri(s) ==
  "postgres://" \o s.user \o ":" \o s.password \o "@localhost:" \o ToString(s.port)

\* format!("{}/{}", &self.db_uri, db_name)
full_db_uri(uri, db_name) == uri \o "/" \o db_name

\* PgEmbed::new: the settings are stored and the URI is computed from them
NewController ==
  /\ pg_settings \in PgSettingsSet
  /\ db_uri = new_db_uri(pg_settings)

\* -------------------------------------------------------- PgAccess::new
\* a path is the sequence of its components; a component is a file name with
\* its stem and its extension ("" when it has none)
FileName(stem, ext) == [stem |-> stem, ext |-> ext]
Comp(name) == FileName(name, "")

None == << >>
Some(x) == <<x>>

\* PathBuf::push of a relative path: its components are appended
push(path, rel) == path \o rel

\* PathBuf::set_extension: the extension of the last component is replaced;
\* a path without a file name is left as it is
set_extension(path, ext) ==
  IF Len(path) = 0
    THEN path
    ELSE [path EXCEPT ![Len(path)] = FileName(@.stem, ext)]

\* the path itself and every ancestor of it
Ancestors(path) == {SubSeq(path, 1, k) : k \in 1..Len(path)}

\* std::fs::create_dir: an existing directory is an error
create_dir_all_strict(dirs, refused, path) ==
  IF path \in dirs \/ Ancestors(path) \cap (refused \ dirs) # {}
    THEN [ok |-> FALSE, dirs |-> dirs]
    ELSE [ok |-> TRUE, dirs |-> dirs \cup Ancestors(path)]

\* tokio::fs::create_dir_all: the directory and its missing ancestors are made,
\* from the outermost on; a directory that exists already is not an error
create_dir_all(dirs, refused, path) ==
  LET bad == {q \in Ancestors(path) : q \in refused /\ q \notin dirs}
  IN IF bad = {}
       THEN [ok |-> TRUE, dirs |-> dirs \cup Ancestors(path)]
       ELSE [ok |-> FALSE,
             dirs |-> dirs \cup {q \in Ancestors(path) :
                                   \A b \in bad : Len(q) < Len(b)}]

\* OperationSystem::to_string
os_to_string(os) == IF os = "Darwin" THEN "darwin" ELSE "linux"

\* PgFetchSettings::platform
platform(fetch) ==
  IF fetch.operating_system = "AlpineLinux"
    THEN os_to_string(fetch.operating_system) \o "-" \o fetch.architecture \o "-alpine"
    ELSE os_to_string(fetch.operating_system) \o "-" \o fetch.architecture

\* PgAccess::create_cache_dir_structure
create_cache_dir_structure(dirs, refused, root, fetch) ==
  IF root = None
    THEN [error |-> "InvalidPgUrl", path |-> << >>, dirs |-> dirs]
    ELSE
      LET os_string == IF fetch.operating_system = "AlpineLinux"
                         THEN "arch_" \o os_to_string(fetch.operating_system)
                         ELSE os_to_string(fetch.operating_system)
          cache_pg_embed == push(root[1], <<Comp("pg-embed"), Comp(os_string),
                                            Comp(fetch.architecture), Comp(fetch.version)>>)
          made == create_dir_all(dirs, refused, cache_pg_embed)
      IN IF made.ok
           THEN [error |-> "none", path |-> cache_pg_embed, dirs |-> made.dirs]
           ELSE [error |-> "DirCreationError", path |-> << >>, dirs |-> made.dirs]

\* PgAccess::create_db_dir_structure
create_db_dir_structure(dirs, refused, db_dir) == create_dir_all(dirs, refused, db_dir)

Failed(e, dirs) == [error |-> e, access |-> None, dirs |-> dirs]

\* PgAccess::new: the value returned and the directories that exist afterwards
PgAccess_new(dirs, refused, root, fetch, database_dir_arg, cache_arg) ==
  LET cache == IF cache_arg # None
                 THEN [error |-> "none", path |-> cache_arg[1], dirs |-> dirs]
                 ELSE create_cache_dir_structure(dirs, refused, root, fetch)
  IN IF cache.error # "none"
       THEN Failed(cache.error, cache.dirs)
       ELSE
         LET db == create_db_dir_structure(cache.dirs, refused, database_dir_arg)
         IN IF ~db.ok
              THEN Failed("DirCreationError", db.dirs)
              ELSE
                [error |-> "none",
                 access |-> Some(
                   [cache_dir |-> cache.path,
                    database_dir |-> database_dir_arg,
                    pg_ctl_exe |-> push(cache.path, <<Comp("bin"), Comp("pg_ctl")>>),
                    init_db_exe |-> push(cache.path, <<Comp("bin"), Comp("initdb")>>),
                    pw_file_path |-> set_extension(database_dir_arg, "pwfile"),
                    zip_file_path |->
                      push(cache.path,
                           <<FileName(platform(fetch) \o "-" \o fetch.version, "zip")>>),
                    pg_version_file |-> push(database_dir_arg, <<Comp("PG_VERSION")>>)]),
                 dirs |-> db.dirs]

\* the number of calls of PgAccess::new that are followed
MaxNewCalls == 2

\* one call of PgAccess::new with the inputs of the run
PgAccess_new_call ==
  /\ Len(pg_access) < MaxNewCalls
  /\ LET r == PgAccess_new(fs_dirs, fs_refused, user_cache_dir, fetch_settings,
                           db_dir_arg, cache_dir_arg)
     IN /\ pg_access' = Append(pg_access, [error |-> r.error, access |-> r.access])
        /\ fs_dirs' = r.dirs
  /\ UNCHANGED <<acqVars, init_db_exe, server_status, status_at_entry, persistent, lpc, call,
                 result, proc, child, elapsed, timer, zip_file, database_dir, pw_file, trace,
                 uriVars, fetch_settings, db_dir_arg, cache_dir_arg, user_cache_dir,
                 fs_refused, purged>>

\* no call of purge yet
NoPurge == [result |-> "none", removal |-> "none"]

\* is path at or below dir
Below(path, dir) == Len(path) >= Len(dir) /\ SubSeq(path, 1, Len(dir)) = dir

\* the error of remove_dir_all returned to the caller
purge_propagates(dirs, root, fails) ==
  IF root = None
    THEN [result |-> "ReadFileError", removal |-> "none", dirs |-> dirs]
    ELSE
      LET cache_dir_ns == push(root[1], <<Comp("pg-embed")>>)
      IN IF cache_dir_ns \notin dirs \/ fails
           THEN [result |-> "PgPurgeFailure", removal |-> "err", dirs |-> dirs]
           ELSE [result |-> "Ok", removal |-> "ok",
                 dirs |-> {d \in dirs : ~Below(d, cache_dir_ns)}]

\* PgAccess::purge: dirs::cache_dir().ok_or_else(ReadFileError)?, push of
\* PG_EMBED_CACHE_DIR_NAME, let _ = remove_dir_all(..).map_err(..).await, Ok(())
\* fails: does the file system refuse the removal of a directory that exists
purge(dirs, root, fails) ==
  IF root = None
    THEN [result |-> "ReadFileError", removal |-> "none", dirs |-> dirs]
    ELSE
      LET cache_dir_ns == push(root[1], <<Comp("pg-embed")>>)
      IN IF cache_dir_ns \notin dirs \/ fails
           THEN [result |-> "Ok", removal |-> "err", dirs |-> dirs]
           ELSE [result |-> "Ok", removal |-> "ok",
                 dirs |-> {d \in dirs : ~Below(d, cache_dir_ns)}]

\* one call of PgAccess::purge
purge_call ==
  /\ \E fails \in BOOLEAN :
       LET r == purge(fs_dirs, user_cache_dir, fails)
       IN /\ purged' = [result |-> r.result, removal |-> r.removal]
          /\ fs_dirs' = r.dirs
  /\ UNCHANGED <<acqVars, init_db_exe, server_status, status_at_entry, persistent, lpc, call,
                 result, proc, child, elapsed, timer, zip_file, database_dir, pw_file, trace,
                 uriVars, fetch_settings, db_dir_arg, cache_dir_arg, user_cache_dir,
                 fs_refused, pg_access>>

NextNew ==
  \/ PgAccess_new_call
  \/ purge_call

\* the inputs PgAccess::new is called with
FetchSettingsSet ==
  {[operating_system |-> os, architecture |-> "amd64", version |-> v] :
     os \in {"Darwin", "Linux", "AlpineLinux"}, v \in {"13.2.0", "10.16.0"}}
DbDirs == {<<Comp("data")>>, <<Comp("tmp"), FileName("db", "old")>>, << >>}
CacheDirArgs == {None, Some(<<Comp("cache")>>), Some(<<Comp("tmp"), Comp("pg")>>)}
UserCacheDirs == {None, Some(<<Comp("home"), Comp("cache")>>)}
Refusable == {<<Comp("tmp")>>, <<Comp("data")>>, <<Comp("home"), Comp("cache"), Comp("pg-embed")>>}

\* the controller's own PgAccess: the defaults, nothing of it followed
PathIdle ==
  /\ fetch_settings = [operating_system |-> "Linux", architecture |-> "amd64",
                       version |-> "13.2.0"]
  /\ db_dir_arg = <<Comp("data")>>
  /\ cache_dir_arg = None
  /\ user_cache_dir = Some(<<Comp("home"), Comp("cache")>>)
  /\ fs_dirs = {}
  /\ fs_refused = {}
  /\ pg_access = << >>
  /\ purged = NoPurge

\* ------------------------------------------------------------ specifications
\* the controller: the cache may hold the executables of an earlier run
Init ==
  /\ AcqIdle
  /\ cache_dir = [i \in Instances |-> ControllerCacheDir]
  /\ \E cached \in BOOLEAN :
       init_db_exe = [d \in CacheDirs |-> cached /\ d = ControllerCacheDir]
  /\ persistent \in BOOLEAN
  /\ LifeIdle
  /\ NewController
  /\ PathIdle

Spec == Init /\ [][NextLife]_vars

\* the instances sharing the acquisition status
\* (instances differ only by name: the assignments of cache directories are
\* taken up to a renaming of the instances)
InitAcq ==
  /\ AcqIdle
  /\ cache_dir \in {f \in [Instances -> CacheDirs] :
                     \A i, j \in Instances : i < j => f[i] <= f[j]}
  /\ init_db_exe \in [CacheDirs -> BOOLEAN]
  /\ persistent = FALSE
  /\ LifeIdle
  /\ pg_settings = [user |-> "postgres", password |-> "password", port |-> 5432]
  /\ db_uri = new_db_uri(pg_settings)
  /\ PathIdle

SpecAcq == InitAcq /\ [][NextAcq]_vars

\* the instances running with the scheduling tokio gives them: every task that
\* can take a step is eventually polled, and the tokio Mutex queues its waiters
\* first come first served; whether an acquirer completes is left open
FairAcq ==
  /\ SpecAcq
  /\ \A i \in Instances : WF_vars(AcqStep(i)) /\ SF_vars(lock_acquire(i))

\* PgAccess::new called repeatedly with the same inputs on the same file system
InitNew ==
  /\ AcqIdle
  /\ cache_dir = [i \in Instances |-> ControllerCacheDir]
  /\ init_db_exe = [d \in CacheDirs |-> FALSE]
  /\ persistent = FALSE
  /\ LifeIdle
  /\ pg_settings = [user |-> "postgres", password |-> "password", port |-> 5432]
  /\ db_uri = new_db_uri(pg_settings)
  /\ fetch_settings \in FetchSettingsSet
  /\ db_dir_arg \in DbDirs
  /\ cache_dir_arg \in CacheDirArgs
  /\ user_cache_dir \in UserCacheDirs
  /\ fs_refused \in SUBSET Refusable
  /\ fs_dirs \in {{}, {<<Comp("tmp")>>}}
  /\ pg_access = << >>
  /\ purged = NoPurge

SpecNew == InitNew /\ [][NextNew]_vars

\* ------------------------------------------------------------------- claims
OnDir(d) == {i \in Instances : cache_dir[i] = d}
ToldToAcquire(d) == {i \in OnDir(d) : ret[i] = "true"}

\* C1: of the instances that share a cache directory, at most one gets true
\* from acquisition_needed; and once all of them have returned while the
\* executables are still not cached, exactly one has.
C1_ExactlyOneAcquirer ==
  \A d \in CacheDirs :
    /\ Cardinality(ToldToAcquire(d)) <= 1
    /\ (OnDir(d) # {} /\ ~init_db_exe[d] /\ \A i \in OnDir(d) : ret[i] # "none")
         => Cardinality(ToldToAcquire(d)) = 1

\* positions inside the polling loop of acquisition_needed
WaitPcs == {"an_poll_lock", "an_poll", "an_tick"}

\* C2: a call of acquisition_needed that found the executables not cached and
\* the status InProgress returns only in a step at which the status of its
\* cache directory is Finished (never while it is InProgress), and returns false.
C2_WaiterReturnsAfterFinished ==
  [][\A i \in Instances :
       (apc[i] \in WaitPcs /\ apc'[i] \notin WaitPcs) =>
         /\ apc'[i] = "returned"
         /\ StatusOf(ACQUIRED_PG_BINS, cache_dir[i]) = "Finished"
         /\ StatusOf(ACQUIRED_PG_BINS', cache_dir[i]) = "Finished"
         /\ ret'[i] = "false"]_vars

C2_WaiterReturned ==
  \E i \in Instances : waited[i] /\ apc[i] = "returned" /\ ret[i] = "false"

\* instances that may still come to call mark_acquisition_finished
FinishPending(d) ==
  {j \in OnDir(d) :
     \/ apc[j] \in {"mip_lock", "mip", "acquiring", "maf_lock", "maf"}
     \/ apc[j] = "returned" /\ ret[j] = "true"}

\* a waiter on a directory marked InProgress that nobody is going to mark Finished
Stuck(i) ==
  /\ apc[i] \in WaitPcs
  /\ StatusOf(ACQUIRED_PG_BINS, cache_dir[i]) = "InProgress"
  /\ FinishPending(cache_dir[i]) = {}

\* C3: under fair scheduling a waiter in acquisition_needed eventually returns
\* unless an acquirer of its directory gave up before mark_acquisition_finished;
\* and a waiter whose directory stays InProgress with no mark_acquisition_finished
\* to come stays in the polling loop for ever.
C3_WaiterLiveness ==
  /\ \A i \in Instances :
       (apc[i] \in WaitPcs) ~>
         (apc[i] = "returned" \/ \E j \in OnDir(cache_dir[i]) : apc[j] = "abandoned")
  /\ [][\A i \in Instances : Stuck(i) => Stuck(i)']_vars

C3_WaiterStuck == \E i \in Instances : Stuck(i)

\* ---- the controller
Range(t) == {t[k] : k \in 1..Len(t)}
Returned == lpc = "idle" /\ result # "none" /\ call # "clean_up"

\* what acquisition_needed would answer the controller at this moment
AcquisitionNeededNow ==
  /\ ~init_db_exe[ControllerCacheDir]
  /\ StatusOf(ACQUIRED_PG_BINS, ControllerCacheDir) = "Undefined"

\* C4: setup fetches (and so writes the archive and unpacks) only when the
\* cache reports that acquisition is needed: no fetch when the executables
\* are already cached or their acquisition has been marked Finished.
C4_FetchOnlyWhenNeeded ==
  [][(lpc = "fetch" /\ lpc' # "fetch") => AcquisitionNeededNow]_vars

\* the steps of setup in the order of the code
SetupOrder ==
  <<"fetch", "write_pg_zip", "unpack", "create_password_file",
    "status:Initializing", "spawn:InitDb">>

\* the error setup returns when the step recorded as failed is its last step
ErrorOf ==
  [e \in {"fetch:err", "write_pg_zip:err", "unpack:err", "create_password_file:err",
          "spawn:InitDb:err"} |->
     CASE e = "fetch:err" -> "FetchError"
       [] e = "unpack:err" -> "UnpackError"
       [] e = "spawn:InitDb:err" -> "PgInitFailure:spawn"
       [] OTHER -> "WriteFileError"]

\* C5: setup runs acquire (fetch, archive write, unpack), credentials file,
\* initialize in this order and stops at the first step that fails: a failed
\* step is the last thing the call did and its error is what setup returned;
\* until initialize begins no step of setup changes the status, so after a
\* failed acquisition or credentials write the status is what it was
\* (Uninitialized for a new controller), the credentials file was not written
\* after a failed acquisition, and initdb was not spawned.
C5_SetupOrderAndFirstFailure ==
  [][call' = "setup" =>
       /\ \A k \in 1..Len(trace') :
            /\ k <= Len(SetupOrder) =>
                 trace'[k] \in {SetupOrder[k], SetupOrder[k] \o ":err"}
            /\ trace'[k] \in DOMAIN ErrorOf =>
                 /\ k = Len(trace')
                 /\ lpc' = "idle"
                 /\ result' = ErrorOf[trace'[k]]
       /\ "status:Initializing" \notin Range(trace') =>
            /\ server_status' = server_status
            /\ "spawn:InitDb" \notin Range(trace')
            /\ "spawn:InitDb:err" \notin Range(trace')
       /\ (Returned' /\ result' = "Ok") => trace'[Len(trace')] = "wait:exit"]_vars

C5_CredentialsWriteFailed ==
  /\ call = "setup"
  /\ Returned
  /\ result = "WriteFileError"
  /\ trace = <<"fetch", "write_pg_zip", "unpack", "create_password_file:err">>
  /\ server_status = "Uninitialized"

\* C6: init_db, start_db and stop_db spawn their command only with the status
\* already at Initializing, Starting or Stopping; the call returns Ok exactly
\* when the command exited with a success code within the timeout (counted
\* from its spawn), and then the status on return is Initialized, Started or
\* Stopped.
C6_TransientThenOkIffSuccess ==
  [][/\ lpc = "spawn" => server_status = Transient[proc]
     /\ (lpc \in {"spawn", "wait"} /\ lpc' = "idle") =>
          /\ (result' = "Ok") <=>
               /\ child.state = "exited"
               /\ child.code = "success"
               /\ child.at <= TimeoutTicks
          /\ result' = "Ok" => server_status' = Final[proc]]_vars

\* C7: whenever init_db, start_db or stop_db (alone or as the last step of
\* setup) has returned an error, the status is Failure; no lifecycle call
\* that has returned leaves the status at Initializing, Starting or Stopping.
C7_ErrorLeavesFailure ==
  /\ (Returned /\ proc # "none" /\ result # "Ok") => server_status = "Failure"
  /\ lpc \in {"idle", "dropped"} =>
       server_status \notin {"Initializing", "Starting", "Stopping"}

\* C8: a lifecycle call is never still waiting on a running command once more
\* than the timeout has passed since the spawn, and a call that returned
\* while its command was still running returned the timeout failure with
\* the status Failure.
C8_TimeoutBoundsTheCall ==
  /\ (InCommand /\ child.state = "running") => elapsed <= TimeoutTicks
  /\ (Returned /\ child.state = "running") =>
       result = "PgStopFailure:TimedOut" /\ server_status = "Failure"

\* C9: a drop runs the stop command exactly when the status is not Stopped,
\* and a drop of a Started controller takes the status through Stopping to
\* where stop_db leaves it.
C9_DropStops ==
  [][(lpc = "idle" /\ lpc' = "dropped") =>
       /\ (server_status # "Stopped") <=>
            (\E e \in Range(trace') : e \in {"spawn:StopDb", "spawn:StopDb:err"})
       /\ server_status = "Started" => server_status' \in {"Stopped", "Failure"}]_vars

DirRemovalAttempted == \E e \in Range(trace) : e \in {"remove_dir_all:ok", "remove_dir_all:err"}
FileRemovalAttempted == \E e \in Range(trace) : e \in {"remove_file:ok", "remove_file:err"}

\* C10 as first stated: the drop of a non-persistent controller attempts the
\* removal of the data directory and of the credentials file, always.
C10_DropAttemptsBothRemovals ==
  (lpc = "dropped" /\ ~persistent) => DirRemovalAttempted /\ FileRemovalAttempted

\* C10: the drop of a non-persistent controller always attempts the removal of
\* the data directory, and attempts the removal of the credentials file
\* exactly when the data directory was removed; from every status a drop can
\* be taken, and no outcome of the removals keeps it from completing.
C10_DropCleansShortCircuit ==
  /\ (lpc = "dropped" /\ ~persistent) =>
       /\ DirRemovalAttempted
       /\ FileRemovalAttempted <=> "remove_dir_all:ok" \in Range(trace)
  /\ lpc = "idle" => ENABLED drop

C10_DroppedAfterFailure ==
  /\ lpc = "dropped"
  /\ ~persistent
  /\ server_status = "Failure"
  /\ trace = <<"remove_dir_all:err">>
  /\ pw_file

\* a step of the controller itself: a lifecycle call or its drop
ControllerStep == call' \in {"setup", "init_db", "start_db", "stop_db", "drop"}

\* C11: a persistent controller removes neither its data directory nor its
\* credentials file: no step of setup, init_db, start_db, stop_db or drop
\* takes away one that existed before the step.
C11_PersistentKeepsFiles ==
  [][(persistent /\ ControllerStep) =>
       /\ database_dir => database_dir'
       /\ pw_file => pw_file']_vars

C11_PersistentDropped ==
  /\ lpc = "dropped"
  /\ persistent
  /\ server_status = "Started"
  /\ database_dir
  /\ pw_file

\* C12: once the status is Failure, no step brings it to Initializing,
\* Initialized, Starting or Started.
C12_FailureIsFinal ==
  [][server_status = "Failure" =>
       server_status' \notin {"Initializing", "Initialized", "Starting", "Started"}]_vars

\* C13 as first stated: the only status that directly follows Uninitialized
\* is Initializing; start_db and stop_db do not move it to Starting or Stopping.
C13_OnlyInitializingFollows ==
  [][server_status = "Uninitialized" =>
       server_status' \in {"Uninitialized", "Initializing"}]_vars

\* C13: the status that directly follows Uninitialized is the transient status
\* of the call made, whichever call it is: Initializing through setup or
\* init_db, Starting through start_db, Stopping through stop_db, and no other.
C13_TransientOfTheCallFollows ==
  [][(server_status = "Uninitialized" /\ server_status' # "Uninitialized") =>
       \/ server_status' = "Initializing" /\ call' \in {"setup", "init_db"}
       \/ server_status' = "Starting" /\ call' = "start_db"
       \/ server_status' = "Stopping" /\ call' = "stop_db"]_vars

C13_StartedFromUninitialized ==
  /\ status_at_entry = "Uninitialized"
  /\ call = "start_db"
  /\ server_status = "Starting"

\* is an explicit cache directory given, and can the data directory be made
ExplicitAndCreatable ==
  /\ cache_dir_arg # None
  /\ Ancestors(db_dir_arg) \cap fs_refused = {}

\* C14: PgAccess::new called again with the same fetch settings, data
\* directory and cache directory returns what the first call returned; with an
\* explicit cache directory and a data directory that can be made, every call
\* succeeds, directories that exist already being no error, and the cache
\* directory returned is the one given, the executables, the archive, the
\* credentials file and the version marker lying where the layout puts them.
C14_NewIsIdempotent ==
  /\ \A k \in 1..Len(pg_access) : pg_access[k] = pg_access[1]
  /\ ExplicitAndCreatable =>
       \A k \in 1..Len(pg_access) :
         /\ pg_access[k].error = "none"
         /\ LET a == pg_access[k].access[1]
            IN /\ a.cache_dir = cache_dir_arg[1]
               /\ a.database_dir = db_dir_arg
               /\ a.pg_ctl_exe = cache_dir_arg[1] \o <<Comp("bin"), Comp("pg_ctl")>>
               /\ a.init_db_exe = cache_dir_arg[1] \o <<Comp("bin"), Comp("initdb")>>
               /\ a.zip_file_path[Len(a.zip_file_path)].ext = "zip"
               /\ SubSeq(a.zip_file_path, 1, Len(a.zip_file_path) - 1) = a.cache_dir
               /\ a.pg_version_file = db_dir_arg \o <<Comp("PG_VERSION")>>
               /\ db_dir_arg # << >> =>
                    a.pw_file_path[Len(db_dir_arg)] =
                      FileName(db_dir_arg[Len(db_dir_arg)].stem, "pwfile")

C14_CalledTwice ==
  /\ Len(pg_access) = 2
  /\ ExplicitAndCreatable
  /\ db_dir_arg = <<Comp("tmp"), FileName("db", "old")>>
  /\ db_dir_arg \in fs_dirs
  /\ pg_access[2].error = "none"

DbNames == {"test", "postgres"}

\* C15: the connection URI is postgres://<user>:<password>@localhost:<port>
\* for the settings the controller was constructed with (for u, p and 5432 it
\* reads postgres://u:p@localhost:5432), full_db_uri(db_name) is that URI
\* followed by / and db_name, and no step of any lifecycle call changes it.
C15_UriFormat ==
  /\ [](/\ db_uri = "postgres://" \o pg_settings.user \o ":" \o pg_settings.password
                      \o "@localhost:" \o ToString(pg_settings.port)
        /\ pg_settings = [user |-> "u", password |-> "p", port |-> 5432] =>
             /\ db_uri = "postgres://u:p@localhost:5432"
             /\ full_db_uri(db_uri, "test") = "postgres://u:p@localhost:5432/test"
        /\ \A n \in DbNames : full_db_uri(db_uri, n) = db_uri \o "/" \o n)
  /\ [][db_uri' = db_uri]_vars

C15_UriAfterLifecycle ==
  /\ server_status = "Stopped"
  /\ call = "stop_db"
  /\ pg_settings.user = "u"
  /\ db_uri = "postgres://u:p@localhost:5432"
  /\ full_db_uri(db_uri, "postgres") = "postgres://u:p@localhost:5432/postgres"

\* the supervisor reads stdout only and will do so until its end, the child
\* holds stdout open and cannot go on before its stderr is read
CircularWait ==
  /\ lpc = "drain_out"
  /\ child.state = "running"
  /\ child.out
  /\ child.blocked = "stderr"

\* C16: the draining of the streams cannot deadlock: the supervisor never
\* waits for the end of stdout alone while the child, stdout still open, is
\* blocked on a full stderr pipe that nothing reads.
C16_NoCircularWait == ~CircularWait

\* C17: while the controller's setup fetches, writes and unpacks the archive
\* the shared status of its cache directory is InProgress, and once the
\* unpack has succeeded and setup has gone on it is Finished.
C17_MarksAroundAcquisition ==
  /\ lpc \in {"fetch", "write_zip", "unpack"} =>
       StatusOf(ACQUIRED_PG_BINS, ControllerCacheDir) = "InProgress"
  /\ (call = "setup" /\ "unpack" \in Range(trace) /\ lpc # "pwfile") =>
       StatusOf(ACQUIRED_PG_BINS, ControllerCacheDir) = "Finished"

\* the positions at which a task holds the guard: one lookup or one insert
GuardedPcs == {LockTarget[pc] : pc \in DOMAIN LockTarget}

\* C18: the lock on the status map is held for one lookup or one insert only:
\* its holder is at a lookup or an insert and gives it up with that very step,
\* so no instance holds it while it downloads and unpacks or sleeps between
\* two polls, and an acquirer waiting to mark Finished faces a holder that can
\* always go on.
C18_LockHeldForOneAccess ==
  /\ mutex # NoHolder => apc[mutex] \in GuardedPcs /\ ENABLED AcqStep(mutex)
  /\ \A i \in Instances :
       apc[i] \in {"acquiring", "an_tick", "returned", "done", "abandoned"} => mutex # i

C18_FinishMarkedWhileWaiterSleeps ==
  \E i, j \in Instances :
    /\ apc[i] = "an_tick"
    /\ apc[j] = "maf"
    /\ mutex = j
    /\ cache_dir[i] = cache_dir[j]

\* C19: a call of acquisition_needed that finds bin/initdb in its cache
\* directory returns false with its first step, whatever the shared status of
\* the directory is: it takes no lock, does not enter the polling loop and is
\* not told to acquire.
C19_CachedReturnsFalseAtOnce ==
  [][\A i \in Instances :
       (apc[i] = "idle" /\ apc'[i] # "idle" /\ init_db_exe[cache_dir[i]]) =>
         /\ apc'[i] = "returned"
         /\ ret'[i] = "false"
         /\ ~waited'[i]
         /\ mutex' = mutex]_vars

\* returned false while the status is InProgress and has never been Finished
C19_ReturnedWhileInProgress ==
  \E i \in Instances :
    /\ apc[i] = "returned"
    /\ ret[i] = "false"
    /\ ~waited[i]
    /\ init_db_exe[cache_dir[i]]
    /\ StatusOf(ACQUIRED_PG_BINS, cache_dir[i]) = "InProgress"
    /\ \A j \in Instances : cache_dir[j] = cache_dir[i] => apc[j] # "done"

\* a step that runs clean (the drop of a non-persistent controller) or clean_up
CleaningStep ==
  /\ lpc = "idle"
  /\ call' = "clean_up" \/ (call' = "drop" /\ ~persistent)

\* C20: clean and clean_up stop at the first failure: when the removal of the
\* data directory fails the call returns the clean-up failure, the removal of
\* the credentials file is not attempted and the file stays as it was; the
\* credentials file goes only in a call that has removed the data directory.
C20_CleanupShortCircuits ==
  /\ [](\A dir \in BOOLEAN, pw \in BOOLEAN, dirFails \in BOOLEAN, pwFails \in BOOLEAN :
          \A c \in {clean(dir, pw, dirFails, pwFails), clean_up(dir, pw, dirFails, pwFails)} :
            /\ c.log[1] = "remove_dir_all:err" =>
                 /\ c.result = "PgCleanUpFailure"
                 /\ c.pw_file = pw
                 /\ Len(c.log) = 1
            /\ (pw /\ ~c.pw_file) => (dir /\ ~c.database_dir))
  /\ [][CleaningStep =>
          /\ "remove_dir_all:err" \in Range(trace') =>
               /\ pw_file' = pw_file
               /\ database_dir' = database_dir
               /\ trace' = <<"remove_dir_all:err">>
               /\ call' = "clean_up" => result' = "PgCleanUpFailure"
          /\ (pw_file /\ ~pw_file') =>
               /\ database_dir /\ ~database_dir'
               /\ trace' = <<"remove_dir_all:ok", "remove_file:ok">>]_vars

C20_CleanUpStoppedAtDirectory ==
  /\ call = "clean_up"
  /\ result = "PgCleanUpFailure"
  /\ trace = <<"remove_dir_all:err">>
  /\ database_dir
  /\ pw_file

\* the cache namespace directory of the run, when there is a cache root
Namespace == push(user_cache_dir[1], <<Comp("pg-embed")>>)

\* C21: purge is best effort: with a cache root that can be located every call
\* of purge returns Ok, whether the removal of the cache namespace directory
\* succeeded or failed; the failure of the removal is never what purge returns.
C21_PurgeSwallowsRemovalFailure ==
  /\ (purged # NoPurge /\ user_cache_dir # None) => purged.result = "Ok"
  /\ purged.removal = "err" => purged.result = "Ok"
  /\ purged.result \in {"none", "Ok", "ReadFileError"}

\* purge returned Ok though the directory, which exists, could not be removed
C21_PurgeFailedAndReturnedOk ==
  /\ purged = [result |-> "Ok", removal |-> "err"]
  /\ user_cache_dir # None
  /\ Namespace \in fs_dirs

ReadErrors == {"stdout:error", "stderr:error"}

\* C22: a lifecycle call in which the reading of stdout or of stderr failed
\* returns that read error to its caller, and a failed read of stdout does
\* not keep stderr from being read.
C22_ReadErrorSurfaced ==
  /\ (Returned /\ Range(trace) \cap ReadErrors # {}) => result = "PgBufferReadError"
  /\ (lpc = "wait" /\ "stdout:error" \in Range(trace)) =>
       Range(trace) \cap {"stderr:eof", "stderr:error"} # {}

C24_StatusFrame ==
  [][/\ DOMAIN ACQUIRED_PG_BINS \subseteq DOMAIN ACQUIRED_PG_BINS'
     /\ \A d \in CacheDirs :
          StatusOf(ACQUIRED_PG_BINS', d) # StatusOf(ACQUIRED_PG_BINS, d) =>
            /\ StatusOf(ACQUIRED_PG_BINS', d) # "Undefined"
            /\ \E i \in Instances :
                 /\ cache_dir[i] = d
                 /\ apc'[i] # apc[i]
                 /\ \/ apc[i] = "mip" /\ StatusOf(ACQUIRED_PG_BINS', d) = "InProgress"
                    \/ apc[i] = "maf" /\ StatusOf(ACQUIRED_PG_BINS', d) = "Finished"]_vars

\* one directory marked Finished while another is still InProgress
C24_TwoDirectoriesApart ==
  \E d, e \in CacheDirs :
    /\ d # e
    /\ StatusOf(ACQUIRED_PG_BINS, d) = "Finished"
    /\ StatusOf(ACQUIRED_PG_BINS, e) = "InProgress"

====
